---- MODULE Spec2Model ----
(***************************************************************************)
(* Model of src/project.py of planckton-flow: the two labels (sampled,     *)
(* rdfed), the two operations (sample, post_proc) as the scheduler runs    *)
(* them on one job, and the log parser get_tps_time.                       *)
(*                                                                         *)
(* Two specifications:                                                     *)
(*   Spec     one job: scheduler passes, sample and post_proc step by step *)
(*   SpecTps  get_tps_time applied to every bounded list of log files      *)
(***************************************************************************)
EXTENDS Integers, Sequences, FiniteSets, TLC

VARIABLES
    sp_n_steps,  \* job.sp.n_steps, fixed at job creation
    doc,         \* job.doc: function from the keys present to their values
    files,       \* files of the job workspace written by the operations
    dirs,        \* directories of the job workspace
    traj_step,   \* configuration.step of the last frame of trajectory.gsd
    pc,          \* position inside the running operation, "idle" between runs
    op,          \* the operation running, or the last one that ran
    outcome,     \* how the last scheduler invocation ended
    i,           \* index of the loop the operation is in
    slopes,      \* post_proc's local dict slopes
    q_list,      \* post_proc's local list q_list
    restart,     \* sample's local restart: TRUE when restart.gsd was found
    outfiles,    \* the list of log files handed to get_tps_time
    ret,         \* what get_tps_time returned (or raised)
    files0,      \* files, doc and dirs as they were when the run started
    doc0,
    dirs0,
    blocked,     \* a post_proc run has created a directory and then aborted
    arg,         \* the input of a function followed on its own
    res,         \* its result
    cur,         \* the job the operation in progress, or the last one, is for
    parked,      \* the state of the other jobs
    fig2,        \* matplotlib figure number 2 of the process: its curves
    msd_png      \* the curves drawn in the job's msd/msd.png

vars == <<sp_n_steps, doc, files, dirs, traj_step, pc, op, outcome, i, slopes,
          q_list, restart, outfiles, ret, files0, doc0, dirs0, blocked,
          arg, res, cur, parked, fig2, msd_png>>

procvars == <<cur, parked, fig2, msd_png>>

auxvars == <<arg, res, cur, parked, fig2, msd_png>>

jobvars == <<sp_n_steps, doc, files, dirs, traj_step, pc, op, outcome, i,
             slopes, q_list, restart, files0, doc0, dirs0, blocked>>

----------------------------------------------------------------------------
(* Bounds *)

MaxSteps == 2    \* n_steps ranges over 1..MaxSteps
NumTypes == 2    \* particle types of the trajectory
NumViews == 2    \* orientations returned by get_quaternions
MaxFiles == 2    \* log files in a list given to get_tps_time
MaxLines == 2    \* lines of a log file
MaxFrames == 60  \* frames of a trajectory whose MSD windows are taken
NumJobs == 2     \* jobs of the project

----------------------------------------------------------------------------
(* Text helpers *)

DigitChars == <<"0", "1", "2", "3", "4", "5", "6", "7", "8", "9">>

DigitVal(c) == (CHOOSE d \in 1..10 : DigitChars[d] = c) - 1

\* int(s) for a string of decimal digits, s given as its characters
RECURSIVE IntOf(_)
IntOf(s) ==
    IF s = <<>> THEN 0
    ELSE 10 * IntOf(SubSeq(s, 1, Len(s) - 1)) + DigitVal(s[Len(s)])

\* str(n) for n >= 0
RECURSIVE StrOf(_)
StrOf(n) ==
    IF n < 10 THEN DigitChars[n + 1]
    ELSE StrOf(n \div 10) \o DigitChars[(n % 10) + 1]

\* f"{n:02d}": at least two digits, zero-padded
Fmt02d(n) == IF n < 10 THEN "0" \o StrOf(n) ELSE StrOf(n)

RECURSIVE SumSeq(_)
SumSeq(s) == IF s = <<>> THEN 0 ELSE s[1] + SumSeq(Tail(s))

----------------------------------------------------------------------------
(* Log files.  A line is one of                                            *)
(*   "Average TPS: <tps>"          kind "tps"                              *)
(*   "Time <hh>:<mm>:<ss> ..."     kind "time", hms the three digit fields *)
(*   anything else                 kind "other"                            *)

NoHms == <<<<>>, <<>>, <<>>>>

TpsLine(v) == [kind |-> "tps", tps |-> v, hms |-> NoHms]
TimeLine(h, m, s) == [kind |-> "time", tps |-> "", hms |-> <<h, m, s>>]
OtherLine == [kind |-> "other", tps |-> "", hms |-> NoHms]

T010000 == TimeLine(<<"0", "1">>, <<"0", "0">>, <<"0", "0">>)
T003015 == TimeLine(<<"0", "0">>, <<"3", "0">>, <<"1", "5">>)

\* the lines of the enumerated log files; a file without any marker is there
\* as the empty file
LineSet == {TpsLine("120"), TpsLine("95"), T010000, T003015}

SeqsUpTo(S, n) == UNION {[1..k -> S] : k \in 0..n}

LogFiles == SeqsUpTo(LineSet, MaxLines)

LogFileLists == SeqsUpTo(LogFiles, MaxFiles)

\* [l for l in lines if "Average TPS" in l]
TpsLines(f) == SelectSeq(f, LAMBDA l : l.kind = "tps")

\* [l for l in lines if "Time" in l]
TimeLines(f) == SelectSeq(f, LAMBDA l : l.kind = "time")

\* int(h)*3600 + int(m)*60 + int(s)
ParseSeconds(l) ==
    IntOf(l.hms[1]) * 3600 + IntOf(l.hms[2]) * 60 + IntOf(l.hms[3])

Unbound == [bound |-> FALSE, val |-> ""]

\* One pass of the for loop over one file: the local tps and the list times
\* after the try block.  The first [-1] that finds an empty list raises
\* IndexError, which skips the rest of the try block.
ScanFile(f, st) ==
    LET tl == TpsLines(f)
        tm == TimeLines(f)
    IN  IF tl = <<>> THEN st
        ELSE LET tps2 == [bound |-> TRUE, val |-> tl[Len(tl)].tps]
             IN  IF tm = <<>> THEN [tps |-> tps2, times |-> st.times]
                 ELSE [tps |-> tps2,
                       times |-> Append(st.times, ParseSeconds(tm[Len(tm)]))]

RECURSIVE ScanFiles(_, _)
ScanFiles(fs, st) ==
    IF fs = <<>> THEN st ELSE ScanFiles(Tail(fs), ScanFile(fs[1], st))

\* hh:mm:ss of a total in seconds
RenderTime(total) ==
    LET hh == total \div 3600
        mm == (total - hh * 3600) \div 60
        ss == total % 60
    IN  Fmt02d(hh) \o ":" \o Fmt02d(mm) \o ":" \o Fmt02d(ss)

Raised(e) == [status |-> e, tps |-> "", time |-> ""]

NotCalled == Raised("not called")

\* get_tps_time(outfiles).  The return statement reads tps first: it is
\* unbound when no file had a throughput line.  np.sum of the empty list is
\* the float 0.0, which the format code 02d rejects.
get_tps_time(fs) ==
    LET st == ScanFiles(fs, [tps |-> Unbound, times |-> <<>>])
    IN  IF ~st.tps.bound THEN Raised("UnboundLocalError")
        ELSE IF st.times = <<>> THEN Raised("ValueError")
        ELSE [status |-> "ok", tps |-> st.tps.val,
              time |-> RenderTime(SumSeq(st.times))]

----------------------------------------------------------------------------
(* The job: labels *)

TRAJ == "trajectory.gsd"
MARKER == "rdf.txt"

HasKey(d, k) == k \in DOMAIN d

PutReplace(d, k, v) == [x \in {k} |-> v]

\* job.doc[k] = v
Put(d, k, v) == [x \in (DOMAIN d) \cup {k} |-> IF x = k THEN v ELSE d[x]]

current_step_zero == IF TRAJ \in files THEN traj_step ELSE 0

\* current_step(job): the last frame's step, -1 without a trajectory file
current_step == IF TRAJ \in files THEN traj_step ELSE -1

\* sampled(job): job.doc.steps raises AttributeError when the document has
\* no key "steps"
sampled ==
    IF ~HasKey(doc, "steps") THEN "AttributeError"
    ELSE IF current_step >= doc["steps"] THEN "true" ELSE "false"

rdfedAnyFile == IF files # {} THEN "true" ELSE "false"

\* rdfed(job)
rdfed == IF MARKER \in files THEN "true" ELSE "false"

EvalLabel(l) == IF l = "sampled" THEN sampled ELSE rdfed

Operations == {"sample", "post_proc"}

PreCondsNone(o) == {}

\* @MyProject.pre(...) of each operation
PreConds(o) == IF o = "post_proc" THEN {"sampled"} ELSE {}

\* @MyProject.post(...) of each operation
PostConds(o) == IF o = "sample" THEN {"sampled"} ELSE {"rdfed"}

\* Eligibility as the scheduler decides it: every pre-condition true and at
\* least one post-condition false; a label that raises ends the evaluation.
Eligible(o) ==
    LET pre == {EvalLabel(l) : l \in PreConds(o)}
        post == {EvalLabel(l) : l \in PostConds(o)}
    IN  IF "AttributeError" \in pre THEN "AttributeError"
        ELSE IF "false" \in pre THEN "false"
        ELSE IF "AttributeError" \in post THEN "AttributeError"
        ELSE IF "false" \in post THEN "true"
        ELSE "false"

----------------------------------------------------------------------------
(* The job: state after creation *)

\* values job.doc.steps may hold when the job is handed to the scheduler
StepTargets == -1..(MaxSteps + 1)

NoDoc == [x \in {} |-> 0]

\* the log files the glob job*.o may find in the workspace
JobLogs ==
    { <<>>,
      << <<T010000>>, <<TpsLine("120"), T003015>> >>,
      << <<OtherLine>> >>,
      << <<TpsLine("95")>> >> }

InitJob ==
    /\ sp_n_steps \in 1..MaxSteps
    /\ doc \in {NoDoc} \cup {[x \in {"steps"} |-> t] : t \in StepTargets}
    /\ files = {}
    /\ dirs = {}
    /\ traj_step = 0
    /\ pc = "idle"
    /\ op = "none"
    /\ outcome = "none"
    /\ i = 0
    /\ slopes = NoDoc
    /\ q_list = <<>>
    /\ restart = FALSE
    /\ files0 = {}
    /\ doc0 = doc
    /\ dirs0 = {}
    /\ blocked = FALSE

\* no function is followed on its own
Pending == [done |-> FALSE]

\* one job, one process, no figure yet
InitProc ==
    /\ cur = 1
    /\ parked = <<>>
    /\ fig2 = {}
    /\ msd_png = {}

InitAux ==
    /\ arg = Pending
    /\ res = Pending
    /\ InitProc

Init ==
    /\ InitJob
    /\ outfiles = <<>>
    /\ ret = NotCalled
    /\ InitAux

----------------------------------------------------------------------------
(* The scheduler *)

\* the output directories of post_proc
OutputDirs ==
    {"rdf/rdf_txt_files", "rdf/rdf_png_files", "msd/msd_npy_files",
     "diffraction_plots"}

\* the run has created at least one output directory
CreatedOutputDir == (dirs \cap OutputDirs) # (dirs0 \cap OutputDirs)

\* The run ends: e is "ok" or the error that ended it.
Finish(e) ==
    /\ pc' = "idle"
    /\ outcome' = e
    /\ blocked' = (blocked \/ (op = "post_proc" /\ e # "ok" /\ CreatedOutputDir))

\* A label raises while the scheduler evaluates eligibility.
SchedulerError ==
    /\ pc = "idle"
    /\ \E o \in Operations : Eligible(o) = "AttributeError"
    /\ outcome # "AttributeError"
    /\ outcome' = "AttributeError"
    /\ UNCHANGED <<auxvars, sp_n_steps, doc, files, dirs, traj_step, pc, op, i, slopes,
                   q_list, restart, outfiles, ret, files0, doc0, dirs0,
                   blocked>>

Start(o, first) ==
    /\ pc = "idle"
    /\ \A x \in Operations : Eligible(x) # "AttributeError"
    /\ Eligible(o) = "true"
    /\ pc' = first
    /\ op' = o
    /\ outcome' = "running"
    /\ i' = 0
    /\ slopes' = NoDoc
    /\ q_list' = <<>>
    /\ restart' = FALSE
    /\ files0' = files
    /\ doc0' = doc
    /\ dirs0' = dirs
    /\ UNCHANGED <<auxvars, sp_n_steps, doc, files, dirs, traj_step, outfiles, ret,
                   blocked>>

StartSample == Start("sample", "s_pack")

StartPostProc == Start("post_proc", "p_open")

\* The body raises, or the process is killed, at any point of the run.
Abort ==
    /\ pc # "idle"
    /\ Finish("aborted")
    /\ UNCHANGED <<auxvars, sp_n_steps, doc, files, dirs, traj_step, op, i, slopes,
                   q_list, restart, outfiles, ret, files0, doc0, dirs0>>

----------------------------------------------------------------------------
(* sample *)

SampleDocKeys ==
    <<"T_SI", "real_timestep", "ref_mass", "ref_distance", "ref_energy">>

Max2(a, b) == IF a >= b THEN a ELSE b

\* gsd_write=max([int(job.sp.n_steps / 100), 1])
GsdWrite(n) == Max2(n \div 100, 1)

\* get_paths, Compound, Pack: no state of the job changes
SamplePack ==
    /\ pc = "s_pack"
    /\ pc' = "s_init"
    /\ UNCHANGED <<auxvars, sp_n_steps, doc, files, dirs, traj_step, op, outcome, i,
                   slopes, q_list, restart, outfiles, ret, files0, doc0, dirs0,
                   blocked>>

\* restart.gsd decides between a restart and a fresh run; Simulation(...)
SampleInit ==
    /\ pc = "s_init"
    /\ restart' = ("restart.gsd" \in files)
    /\ i' = 0
    /\ pc' = "s_run"
    /\ UNCHANGED <<auxvars, sp_n_steps, doc, files, dirs, traj_step, op, outcome,
                   slopes, q_list, outfiles, ret, files0, doc0, dirs0, blocked>>

\* my_sim.run() writes one more frame.  A fresh run starts the trajectory at
\* step 0, a restarted one appends to it.  The engine may or may not have
\* written its restart file by the time the frame is on disk.
SimFrame ==
    /\ pc = "s_run"
    /\ LET fresh == i = 0 /\ (~restart \/ TRAJ \notin files)
       IN  /\ fresh \/ traj_step < sp_n_steps
           /\ traj_step' = IF fresh THEN 0
                           ELSE IF traj_step + GsdWrite(sp_n_steps) > sp_n_steps
                                THEN sp_n_steps
                                ELSE traj_step + GsdWrite(sp_n_steps)
    /\ \E w \in BOOLEAN :
           files' = files \cup {TRAJ} \cup (IF w THEN {"restart.gsd"} ELSE {})
    /\ i' = 1
    /\ UNCHANGED <<auxvars, sp_n_steps, doc, dirs, pc, op, outcome, slopes, q_list,
                   restart, outfiles, ret, files0, doc0, dirs0, blocked>>

\* my_sim.run() returns: the last frame is at n_steps
SimDone ==
    /\ pc = "s_run"
    /\ i = 1 \/ restart
    /\ TRAJ \in files
    /\ traj_step >= sp_n_steps
    /\ pc' = "s_doc"
    /\ i' = 1
    /\ UNCHANGED <<auxvars, sp_n_steps, doc, files, dirs, traj_step, op, outcome,
                   slopes, q_list, restart, outfiles, ret, files0, doc0, dirs0,
                   blocked>>

\* job.doc["T_SI"] = ... up to job.doc["ref_energy"] = ..., one per step
SampleWriteDoc ==
    /\ pc = "s_doc"
    /\ doc' = Put(doc, SampleDocKeys[i], "quantity")
    /\ IF i < Len(SampleDocKeys)
       THEN i' = i + 1 /\ pc' = "s_doc"
       ELSE i' = 0 /\ pc' = "s_glob"
    /\ UNCHANGED <<auxvars, sp_n_steps, files, dirs, traj_step, op, outcome, slopes,
                   q_list, restart, outfiles, ret, files0, doc0, dirs0,
                   blocked>>

\* outfiles = glob.glob(...); if outfiles: tps,time = get_tps_time(outfiles)
SampleGlob ==
    /\ pc = "s_glob"
    /\ \E fs \in JobLogs :
          /\ outfiles' = fs
          /\ IF fs = <<>>
             THEN /\ ret' = NotCalled
                  /\ Finish("ok")
             ELSE /\ ret' = get_tps_time(fs)
                  /\ IF ret'.status = "ok"
                     THEN /\ pc' = "s_tps"
                          /\ UNCHANGED <<outcome, blocked>>
                     ELSE Finish(ret'.status)
    /\ UNCHANGED <<auxvars, sp_n_steps, doc, files, dirs, traj_step, op, i, slopes,
                   q_list, restart, files0, doc0, dirs0>>

\* job.doc["average_TPS"] = tps
SampleWriteTps ==
    /\ pc = "s_tps"
    /\ doc' = Put(doc, "average_TPS", ret.tps)
    /\ pc' = "s_time"
    /\ UNCHANGED <<auxvars, sp_n_steps, files, dirs, traj_step, op, outcome, i, slopes,
                   q_list, restart, outfiles, ret, files0, doc0, dirs0,
                   blocked>>

\* job.doc["total_time"] = time, the last statement of sample
SampleWriteTime ==
    /\ pc = "s_time"
    /\ doc' = Put(doc, "total_time", ret.time)
    /\ Finish("ok")
    /\ UNCHANGED <<auxvars, sp_n_steps, files, dirs, traj_step, op, i, slopes, q_list,
                   restart, outfiles, ret, files0, doc0, dirs0>>

----------------------------------------------------------------------------
(* post_proc *)

TypeNames == <<"ca", "ha", "oh", "ss", "n3">>

\* all_atoms = snap.particles.types
all_atoms == SubSeq(TypeNames, 1, NumTypes)

ViewNames == <<"q1", "q2", "q3", "q4", "q5">>

\* cmeutils.structure.get_quaternions()
get_quaternions == SubSeq(ViewNames, 1, NumViews)

RDF_TXT_DIR == "rdf/rdf_txt_files"
RDF_PNG_DIR == "rdf/rdf_png_files"
MSD_NPY_DIR == "msd/msd_npy_files"
DP_DIR == "diffraction_plots"

RdfTxt(t) == RDF_TXT_DIR \o "/" \o t \o "_rdf.txt"
RdfPng(t) == RDF_PNG_DIR \o "/" \o t \o "_rdf.png"
MsdNpy(t) == MSD_NPY_DIR \o "/" \o t \o ".npy"
MSD_PNG == "msd/msd.png"
DpPng(q) == DP_DIR \o "/" \o q \o ".png"
DP_NPY == "dp.npy"

\* the files the three analysis stages write
AnalysisFiles ==
    {RdfTxt(all_atoms[k]) : k \in 1..NumTypes}
        \cup {RdfPng(all_atoms[k]) : k \in 1..NumTypes}
        \cup {MsdNpy(all_atoms[k]) : k \in 1..NumTypes}
        \cup {MSD_PNG, DP_NPY}
        \cup {DpPng(get_quaternions[k]) : k \in 1..NumViews}

MkdirExistOk(d, leaf) == TRUE

\* os.makedirs(leaf) and os.mkdir(leaf) succeed only if leaf does not exist
MkdirAllowed(d, leaf) == leaf \notin d

\* gsd.hoomd.open(gsdfile); snap = f[0]; all_atoms = snap.particles.types
PostOpen ==
    /\ pc = "p_open"
    /\ IF TRAJ \in files
       THEN pc' = "p_mk_rdf_txt" /\ UNCHANGED <<outcome, blocked>>
       ELSE Finish("FileNotFoundError")
    /\ UNCHANGED <<auxvars, sp_n_steps, doc, files, dirs, traj_step, op, i, slopes,
                   q_list, restart, outfiles, ret, files0, doc0, dirs0>>

\* os.makedirs(os.path.join(job.ws, parent/leaf)): a missing parent is
\* created first, then the leaf; an existing leaf raises FileExistsError.
\* os.mkdir is the case without a parent.
MakeDirs(at, parents, leaf, next) ==
    /\ pc = at
    /\ IF ~(parents \subseteq dirs)
       THEN /\ dirs' = dirs \cup parents
            /\ UNCHANGED <<pc, i, outcome, blocked>>
       ELSE IF MkdirAllowed(dirs, leaf)
       THEN /\ dirs' = dirs \cup {leaf}
            /\ pc' = next
            /\ i' = 1
            /\ UNCHANGED <<outcome, blocked>>
       ELSE /\ dirs' = dirs
            /\ i' = i
            /\ Finish("FileExistsError")
    /\ UNCHANGED <<auxvars, sp_n_steps, doc, files, traj_step, op, slopes, q_list,
                   restart, outfiles, ret, files0, doc0, dirs0>>

MakeRdfTxtDir == MakeDirs("p_mk_rdf_txt", {"rdf"}, RDF_TXT_DIR, "p_mk_rdf_png")

MakeRdfPngDir == MakeDirs("p_mk_rdf_png", {"rdf"}, RDF_PNG_DIR, "p_mk_msd")

SkipMsdDir ==
    /\ pc = "p_mk_msd"
    /\ pc' = "p_rdf_txt"
    /\ i' = 1
    /\ UNCHANGED <<auxvars, sp_n_steps, doc, files, dirs, traj_step, op, outcome,
                   slopes, q_list, restart, outfiles, ret, files0, doc0, dirs0,
                   blocked>>

MakeMsdDir == MakeDirs("p_mk_msd", {"msd"}, MSD_NPY_DIR, "p_rdf_txt")

\* One statement of the body of "for types in all_atoms" that writes a file
WriteTypeFile(at, f, next) ==
    /\ pc = at
    /\ files' = files \cup {f}
    /\ pc' = next
    /\ UNCHANGED <<auxvars, sp_n_steps, doc, dirs, traj_step, op, outcome, i, slopes,
                   q_list, restart, outfiles, ret, files0, doc0, dirs0,
                   blocked>>

\* np.savetxt(save_path, ...)
WriteRdfTxt == WriteTypeFile("p_rdf_txt", RdfTxt(all_atoms[i]), "p_rdf_png")

\* plt.savefig(save_rdf_plot)
WriteRdfPng == WriteTypeFile("p_rdf_png", RdfPng(all_atoms[i]), "p_msd_npy")

\* msd_array = msd_from_gsd(start=-30, stop=-1); np.save(save_path, msd_array)
WriteMsdNpy == WriteTypeFile("p_msd_npy", MsdNpy(all_atoms[i]), "p_msd_png")

\* the curve of one particle type of one job
Curve(j, t) == <<j, t>>

\* plt.figure(2, ...) makes the process's figure number 2 current, creating
\* it if the process has none; plt.plot(msd_array, label=types) adds the
\* curve to it; plt.savefig(save_msd_plot) writes the figure as it is
WriteMsdPng ==
    /\ pc = "p_msd_png"
    /\ fig2' = fig2 \cup {Curve(cur, all_atoms[i])}
    /\ msd_png' = fig2'
    /\ files' = files \cup {MSD_PNG}
    /\ pc' = "p_slope"
    /\ UNCHANGED <<arg, res, cur, parked, sp_n_steps, doc, dirs, traj_step,
                   op, outcome, i, slopes, q_list, restart, outfiles, ret,
                   files0, doc0, dirs0, blocked>>

FitSlopeOnce ==
    /\ pc = "p_slope"
    /\ slopes' = Put(slopes, all_atoms[i], "slope")
    /\ i' = 0
    /\ pc' = "p_doc"
    /\ UNCHANGED <<auxvars, sp_n_steps, doc, files, dirs, traj_step, op, outcome,
                   q_list, restart, outfiles, ret, files0, doc0, dirs0,
                   blocked>>

FitSlopeWritesDoc ==
    /\ pc = "p_slope"
    /\ slopes' = Put(slopes, all_atoms[i], "slope")
    /\ doc' = Put(doc, "msd_slopes", slopes')
    /\ IF i < Len(all_atoms)
       THEN i' = i + 1 /\ pc' = "p_rdf_txt"
       ELSE i' = 0 /\ pc' = "p_doc"
    /\ UNCHANGED <<auxvars, sp_n_steps, files, dirs, traj_step, op, outcome,
                   q_list, restart, outfiles, ret, files0, doc0, dirs0,
                   blocked>>

\* msd_from_gsd(start=-25, stop=-9); linregress; slopes[types] = slope.slope
\* (the trajectory is taken to hold the frames the fit needs)
FitSlope ==
    /\ pc = "p_slope"
    /\ slopes' = Put(slopes, all_atoms[i], "slope")
    /\ IF i < Len(all_atoms)
       THEN i' = i + 1 /\ pc' = "p_rdf_txt"
       ELSE i' = 0 /\ pc' = "p_doc"
    /\ UNCHANGED <<auxvars, sp_n_steps, doc, files, dirs, traj_step, op, outcome,
                   q_list, restart, outfiles, ret, files0, doc0, dirs0,
                   blocked>>

\* job.doc['msd_slopes'] = slopes
WriteSlopes ==
    /\ pc = "p_doc"
    /\ doc' = Put(doc, "msd_slopes", slopes)
    /\ pc' = "p_mk_dp"
    /\ UNCHANGED <<auxvars, sp_n_steps, files, dirs, traj_step, op, outcome, i, slopes,
                   q_list, restart, outfiles, ret, files0, doc0, dirs0,
                   blocked>>

\* the second open of the trajectory; os.mkdir(diffraction_plots)
MakeDiffractionDir == MakeDirs("p_mk_dp", {}, DP_DIR, "p_dp_png")

WriteDiffractionPngPrepend ==
    /\ pc = "p_dp_png"
    /\ q_list' = <<get_quaternions[i]>> \o q_list
    /\ files' = files \cup {DpPng(get_quaternions[i])}
    /\ IF i < Len(get_quaternions)
       THEN i' = i + 1 /\ pc' = "p_dp_png"
       ELSE i' = 0 /\ pc' = "p_dp_npy"
    /\ UNCHANGED <<auxvars, sp_n_steps, doc, dirs, traj_step, op, outcome, slopes,
                   restart, outfiles, ret, files0, doc0, dirs0, blocked>>

\* one pass of "for q in get_quaternions()": q_list.append(q); plt.savefig
WriteDiffractionPng ==
    /\ pc = "p_dp_png"
    /\ q_list' = Append(q_list, get_quaternions[i])
    /\ files' = files \cup {DpPng(get_quaternions[i])}
    /\ IF i < Len(get_quaternions)
       THEN i' = i + 1 /\ pc' = "p_dp_png"
       ELSE i' = 0 /\ pc' = "p_dp_npy"
    /\ UNCHANGED <<auxvars, sp_n_steps, doc, dirs, traj_step, op, outcome, slopes,
                   restart, outfiles, ret, files0, doc0, dirs0, blocked>>

\* np.save(dp_path, q_list), the last statement of post_proc
WriteDpNpy ==
    /\ pc = "p_dp_npy"
    /\ files' = files \cup {DP_NPY}
    /\ Finish("ok")
    /\ UNCHANGED <<auxvars, sp_n_steps, doc, dirs, traj_step, op, i, slopes, q_list,
                   restart, outfiles, ret, files0, doc0, dirs0>>

----------------------------------------------------------------------------
(* Specification of one job *)

SamplePcs == {"s_pack", "s_init", "s_run", "s_doc", "s_glob", "s_tps", "s_time"}

PostProcPcs ==
    {"p_open", "p_mk_rdf_txt", "p_mk_rdf_png", "p_mk_msd", "p_rdf_txt",
     "p_rdf_png", "p_msd_npy", "p_msd_png", "p_slope", "p_doc", "p_mk_dp",
     "p_dp_png", "p_dp_npy"}

Next ==
    \/ SchedulerError
    \/ StartSample
    \/ StartPostProc
    \/ Abort
    \/ SamplePack
    \/ SampleInit
    \/ SimFrame
    \/ SimDone
    \/ SampleWriteDoc
    \/ SampleGlob
    \/ SampleWriteTps
    \/ SampleWriteTime
    \/ PostOpen
    \/ MakeRdfTxtDir
    \/ MakeRdfPngDir
    \/ MakeMsdDir
    \/ WriteRdfTxt
    \/ WriteRdfPng
    \/ WriteMsdNpy
    \/ WriteMsdPng
    \/ FitSlope
    \/ WriteSlopes
    \/ MakeDiffractionDir
    \/ WriteDiffractionPng
    \/ WriteDpNpy

Spec == Init /\ [][Next]_vars

TypeOK ==
    /\ sp_n_steps \in 1..MaxSteps
    /\ pc \in {"idle"} \cup SamplePcs \cup PostProcPcs
    /\ op \in Operations \cup {"none"}
    /\ files \subseteq {TRAJ, "restart.gsd"} \cup AnalysisFiles
    /\ dirs \subseteq OutputDirs \cup {"rdf", "msd"}
    /\ traj_step \in 0..MaxSteps
    /\ blocked \in BOOLEAN

----------------------------------------------------------------------------
(* Specification of get_tps_time on its own: every list of at most MaxFiles *)
(* log files of at most MaxLines lines, the job left as created             *)

InitTps ==
    /\ InitJob
    /\ sp_n_steps = 1
    /\ doc = NoDoc
    /\ outfiles \in LogFileLists
    /\ ret = NotCalled
    /\ InitAux

CallGetTpsTime ==
    /\ ret = NotCalled
    /\ ret' = get_tps_time(outfiles)
    /\ UNCHANGED <<jobvars, outfiles, auxvars>>

NextTps == CallGetTpsTime

SpecTps == InitTps /\ [][NextTps]_vars

----------------------------------------------------------------------------
(* Properties *)

IsEligible(o) == Eligible(o) = "true"

\* C1: in every reachable state sample is eligible iff sampled is false,
\* post_proc is eligible iff sampled is true and rdfed is false, and the two
\* are never eligible together.
C1_Eligibility ==
    /\ IsEligible("sample") <=> (sampled = "false")
    /\ IsEligible("post_proc") <=> (sampled = "true" /\ rdfed = "false")
    /\ ~(IsEligible("sample") /\ IsEligible("post_proc"))

\* a sample run has ended and post_proc has become the eligible operation
C1_Witness ==
    /\ pc = "idle"
    /\ op = "sample"
    /\ outcome = "ok"
    /\ IsEligible("post_proc")
    /\ ~IsEligible("sample")

\* C2: after post_proc has run to completion without error, rdf.txt exists,
\* rdfed is true and post_proc is no longer eligible.
C2_PostProcCompletes ==
    (pc = "idle" /\ op = "post_proc" /\ outcome = "ok")
        => (MARKER \in files /\ rdfed = "true" /\ ~IsEligible("post_proc"))

\* C3: after a run of an operation that ended by raising, on a job whose
\* stored target is its n_steps, the operation's post-condition is false and
\* the operation is eligible again.
C3_RaiseKeepsEligible ==
    ( /\ pc = "idle"
      /\ op \in Operations
      /\ outcome \notin {"none", "running", "ok", "AttributeError"}
      /\ HasKey(doc, "steps")
      /\ doc["steps"] = sp_n_steps )
        => ( /\ \A l \in PostConds(op) : EvalLabel(l) = "false"
             /\ IsEligible(op) )

HasTime(f) == TimeLines(f) # <<>>
HasTps(f) == TpsLines(f) # <<>>

\* the seconds of the last time line of every file that has a time line
RECURSIVE MarkedSeconds(_)
MarkedSeconds(fs) ==
    IF fs = <<>> THEN 0
    ELSE (IF HasTime(fs[1])
          THEN ParseSeconds(TimeLines(fs[1])[Len(TimeLines(fs[1]))])
          ELSE 0) + MarkedSeconds(Tail(fs))

\* C4: the total time get_tps_time returns is the sum of the last time line
\* of every file that has a time line, with or without a throughput line.
C4_TotalTime ==
    (ret.status = "ok") => (ret.time = RenderTime(MarkedSeconds(outfiles)))

\* C5: a list of log files in which every file has either both markers or
\* none does not make get_tps_time fail, also when no file has a throughput
\* line.
C5_NeitherFileHarmless ==
    ( /\ ret # NotCalled
      /\ outfiles # <<>>
      /\ \A k \in 1..Len(outfiles) :
            HasTps(outfiles[k]) <=> HasTime(outfiles[k])
      /\ \E k \in 1..Len(outfiles) :
            ~HasTps(outfiles[k]) /\ ~HasTime(outfiles[k]) )
        => ret.status = "ok"

\* C6: with a stored target >= 0, sampled is true iff trajectory.gsd exists
\* and its last frame's step is >= the target; without the file
\* current_step is -1, which no existing trajectory reports, and sampled is
\* false.
C6_Sampled ==
    (HasKey(doc, "steps") /\ doc["steps"] >= 0)
        => ( /\ (sampled = "true")
                   <=> (TRAJ \in files /\ traj_step >= doc["steps"])
             /\ (TRAJ \notin files)
                   => (current_step = -1 /\ sampled = "false")
             /\ (TRAJ \in files) => (current_step # -1) )

\* the trajectory exists and is below a target >= 0: started, not sampled
C6_Witness ==
    /\ HasKey(doc, "steps")
    /\ doc["steps"] >= 0
    /\ TRAJ \in files
    /\ current_step < doc["steps"]
    /\ sampled = "false"

\* C7: sampled compares the last frame's step against the statepoint's
\* n_steps, so it evaluates without error whatever the document holds.
C7_TargetIsStatepoint ==
    sampled = (IF current_step >= sp_n_steps THEN "true" ELSE "false")

FirstDirs == {RDF_TXT_DIR, RDF_PNG_DIR, MSD_NPY_DIR}

RdfMsdFiles ==
    {RdfTxt(all_atoms[k]) : k \in 1..NumTypes}
        \cup {RdfPng(all_atoms[k]) : k \in 1..NumTypes}
        \cup {MsdNpy(all_atoms[k]) : k \in 1..NumTypes}
        \cup {MSD_PNG}

DiffractionFiles == {DpPng(get_quaternions[k]) : k \in 1..NumViews} \cup {DP_NPY}

\* the run of post_proc in progress, or the last one, has written a file or
\* a document field
PostProcWrote == op = "post_proc" /\ (files # files0 \/ doc # doc0)

\* C8 as claimed: all four output directories exist before post_proc writes
\* any file or document field.
C8_AllDirsFirst == PostProcWrote => (OutputDirs \subseteq dirs)

\* C8 amended: the run creates the three RDF and MSD directories before it
\* writes any file or document field; it creates diffraction_plots only
\* after every RDF and MSD file and msd_slopes are written, and before any
\* diffraction file; a run that finds one of the first three directories
\* writes no file and no document field and does not complete.
C8_DirsBeforeTheirStage ==
    /\ PostProcWrote => (FirstDirs \subseteq (dirs \ dirs0))
    /\ (op = "post_proc" /\ DP_DIR \in (dirs \ dirs0))
          => (RdfMsdFiles \subseteq files /\ HasKey(doc, "msd_slopes"))
    /\ (op = "post_proc" /\ (files \ files0) \cap DiffractionFiles # {})
          => (DP_DIR \in (dirs \ dirs0))
    /\ (op = "post_proc" /\ FirstDirs \cap dirs0 # {})
          => (files = files0 /\ doc = doc0 /\ outcome # "ok")

\* the run has just created diffraction_plots, after the RDF and MSD stage
C8_Witness ==
    /\ pc = "p_dp_png"
    /\ i = 1
    /\ DP_DIR \in (dirs \ dirs0)
    /\ HasKey(doc, "msd_slopes")
    /\ q_list = <<>>

\* C9: once a post_proc run has created a directory and aborted, a later
\* run gets no further than the first makedirs, which collides; it writes
\* no file, no document field and no directory, and no run completes.
C9_RetryBlocked ==
    blocked
        => ( /\ pc \notin SamplePcs
             /\ pc \in PostProcPcs
                   => ( /\ pc \in {"p_open", "p_mk_rdf_txt"}
                        /\ files = files0
                        /\ doc = doc0
                        /\ dirs = dirs0 )
             /\ pc = "p_mk_rdf_txt" => ~MkdirAllowed(dirs, RDF_TXT_DIR)
             /\ pc = "idle" => outcome \in {"aborted", "FileExistsError"} )

\* a retry after an aborted run has ended in the directory collision
C9_Witness ==
    /\ blocked
    /\ pc = "idle"
    /\ op = "post_proc"
    /\ outcome = "FileExistsError"
    /\ RDF_TXT_DIR \in dirs0

\* C10: no step of sample or post_proc, an abort included, removes a
\* document key, a file or a directory.
C10_Monotone ==
    [][ /\ (DOMAIN doc) \subseteq (DOMAIN doc')
        /\ files \subseteq files'
        /\ dirs \subseteq dirs' ]_vars

\* an aborted post_proc run has left files and directories behind, next to
\* the document fields an earlier sample run wrote
C10_Witness ==
    /\ pc = "idle"
    /\ op = "post_proc"
    /\ outcome = "aborted"
    /\ files # files0
    /\ dirs # dirs0
    /\ HasKey(doc, "T_SI")
    /\ HasKey(doc, "total_time")

\* the value on the last throughput line of the last file that has one
RECURSIVE LastTps(_)
LastTps(fs) ==
    IF fs = <<>> THEN ""
    ELSE IF HasTps(fs[Len(fs)])
         THEN TpsLines(fs[Len(fs)])[Len(TpsLines(fs[Len(fs)]))].tps
         ELSE LastTps(SubSeq(fs, 1, Len(fs) - 1))

\* C11: for every list of log files with a throughput line in at least one
\* file, get_tps_time returns the value on the last throughput line of the
\* last file, in processing order, that has a throughput line, whichever
\* files have a time line.
C11_LastWins ==
    (ret # NotCalled /\ \E k \in 1..Len(outfiles) : HasTps(outfiles[k]))
        => (ret.status = "ok" /\ ret.tps = LastTps(outfiles))

\* what holds of the code: the value is the last one whenever a value is
\* returned
LastWinsIfReturned ==
    (ret.status = "ok") => (ret.tps = LastTps(outfiles))

----------------------------------------------------------------------------
(* rdfed on its own, over workspaces the operations need not produce *)

\* files a workspace may hold when the label is evaluated
LabelFiles ==
    {MARKER, TRAJ, RdfTxt(all_atoms[1]), RdfPng(all_atoms[1]),
     MsdNpy(all_atoms[1]), MSD_PNG, DpPng(get_quaternions[1]), DP_NPY}

\* documents the job may have when the label is evaluated
LabelDocs ==
    {NoDoc, Put(NoDoc, "steps", 1),
     Put(Put(NoDoc, "steps", 1), "msd_slopes", Put(NoDoc, all_atoms[1], "slope"))}

InitRdfed ==
    /\ sp_n_steps = 1
    /\ doc \in LabelDocs
    /\ files \in SUBSET LabelFiles
    /\ dirs = {}
    /\ traj_step = 0
    /\ pc = "idle"
    /\ op = "none"
    /\ outcome = "none"
    /\ i = 0
    /\ slopes = NoDoc
    /\ q_list = <<>>
    /\ restart = FALSE
    /\ files0 = files
    /\ doc0 = doc
    /\ dirs0 = {}
    /\ blocked = FALSE
    /\ outfiles = <<>>
    /\ ret = NotCalled
    /\ InitAux

CallRdfed ==
    /\ res = Pending
    /\ res' = [done |-> TRUE, val |-> rdfed]
    /\ UNCHANGED <<jobvars, outfiles, ret, arg, procvars>>

NextRdfed == CallRdfed

SpecRdfed == InitRdfed /\ [][NextRdfed]_vars

\* C12: rdfed(job) is true iff rdf.txt exists in the job's workspace,
\* whatever per-type RDF files, MSD artifacts, diffraction artifacts or
\* document fields exist.
C12_RdfedIsMarker ==
    res.done => (res.val = "true" <=> MARKER \in files)

\* rdfed is true with only the marker present, and false with every other
\* artifact present but the marker (the two witnesses below)
C12_Witness ==
    /\ res.done
    /\ res.val = "true"
    /\ files = {MARKER}
    /\ doc = NoDoc

C12_WitnessOthers ==
    /\ res.done
    /\ res.val = "false"
    /\ files = LabelFiles \ {MARKER}
    /\ HasKey(doc, "msd_slopes")

----------------------------------------------------------------------------
(* post_proc: the diffraction stage *)

DiffractionImages == {DpPng(get_quaternions[k]) : k \in 1..Len(get_quaternions)}

PostProcCompleted == pc = "idle" /\ op = "post_proc" /\ outcome = "ok"

\* C13: a post_proc run that completes has written one diffraction image
\* for each orientation of the fixed set, and the list saved as dp.npy holds
\* every orientation once, in the order processed; dp.npy is in the
\* workspace only when every orientation's image is.
C13_DiffractionComplete ==
    /\ PostProcCompleted =>
          /\ files \cap DiffractionFiles = DiffractionImages \cup {DP_NPY}
          /\ Cardinality(DiffractionImages) = Len(get_quaternions)
          /\ q_list = get_quaternions
    /\ (pc = "p_dp_npy") => (q_list = get_quaternions)
    /\ (DP_NPY \in files) => (DiffractionImages \subseteq files)

C13_Witness ==
    /\ PostProcCompleted
    /\ DP_NPY \in files
    /\ Len(q_list) >= 2

----------------------------------------------------------------------------
(* get_paths on its own *)

\* planckton.compounds.COMPOUND: recognized structure names and their files
CompoundNames == {"PCPDTBT", "P3HT"}

COMPOUND == [k \in CompoundNames |-> "/planckton/compounds/" \o k \o ".mol2"]

\* identifiers a statepoint may list in job.sp.input
AbsoluteKeys == {"/data/itic.mol2"}

RelativeKeys == {"PCPDTBT", "P3HT", "ptb7.mol2", "c1ccccc1"}

InputKeys == AbsoluteKeys \cup RelativeKeys

\* job.ws and the directory two levels above it
ROOT == "/home/planckton-flow"

JOB_WS == ROOT \o "/workspace/jobid"

\* the paths that start with "/"
IsAbs(p) == p \in AbsoluteKeys \cup {ROOT \o "/" \o k : k \in RelativeKeys}

\* os.path.join(base, p): an absolute p replaces the base
PathJoin(base, p) == IF IsAbs(p) THEN p ELSE base \o "/" \o p

\* path.abspath(path.join(job.ws, "..", "..", key))
RootPath(key) == PathJoin(ROOT, key)

\* the file a path names for the process, whose working directory is job.ws
\* inside "with job:"
LiteralPath(key) == PathJoin(JOB_WS, key)

\* path.isfile(p) in a file system whose regular files are fs
IsFile(fs, p) == PathJoin(JOB_WS, p) \in fs

FsPaths == {LiteralPath(k) : k \in InputKeys} \cup {RootPath(k) : k \in InputKeys}

get_pathsRootFirst(key, fs) ==
    IF key \in DOMAIN COMPOUND
    THEN [done |-> TRUE, status |-> "ok", val |-> COMPOUND[key]]
    ELSE LET file_path == RootPath(key)
         IN  IF IsFile(fs, file_path)
             THEN [done |-> TRUE, status |-> "ok", val |-> file_path]
             ELSE [done |-> TRUE, status |-> "ok", val |-> key]

\* get_paths(key, job)
get_paths(key, fs) ==
    IF key \in DOMAIN COMPOUND
    THEN [done |-> TRUE, status |-> "ok", val |-> COMPOUND[key]]
    ELSE LET file_path == RootPath(key)
         IN  IF IsFile(fs, key)
             THEN [done |-> TRUE, status |-> "ok", val |-> key]
             ELSE IF IsFile(fs, file_path)
             THEN [done |-> TRUE, status |-> "ok", val |-> file_path]
             ELSE [done |-> TRUE, status |-> "ok", val |-> key]

InitPaths ==
    /\ InitJob
    /\ sp_n_steps = 1
    /\ doc = NoDoc
    /\ outfiles = <<>>
    /\ ret = NotCalled
    /\ arg \in [done : {TRUE}, key : InputKeys, fs : SUBSET FsPaths]
    /\ res = Pending
    /\ InitProc

CallGetPaths ==
    /\ res = Pending
    /\ res' = get_paths(arg.key, arg.fs)
    /\ UNCHANGED <<jobvars, outfiles, ret, arg, procvars>>

NextPaths == CallGetPaths

SpecPaths == InitPaths /\ [][NextPaths]_vars

\* C14: get_paths returns the first interpretation that succeeds: the file
\* of a recognized structure name; else the identifier as a literal path if
\* that is an existing file; else the path of that name under the directory
\* two levels above the job workspace if that is an existing file; else the
\* identifier itself. It never raises for an unrecognized identifier.
C14_ResolutionOrder ==
    res.done =>
        /\ res.status = "ok"
        /\ (arg.key \in CompoundNames) => (res.val = COMPOUND[arg.key])
        /\ (arg.key \notin CompoundNames /\ LiteralPath(arg.key) \in arg.fs)
              => (res.val = arg.key)
        /\ (arg.key \notin CompoundNames /\ LiteralPath(arg.key) \notin arg.fs
               /\ RootPath(arg.key) \in arg.fs)
              => (res.val = RootPath(arg.key))
        /\ (arg.key \notin CompoundNames /\ LiteralPath(arg.key) \notin arg.fs
               /\ RootPath(arg.key) \notin arg.fs)
              => (res.val = arg.key)

\* an unrecognized name that exists both as a literal path and under the
\* root directory resolves to the literal path
C14_Witness ==
    /\ res.done
    /\ arg.key \notin CompoundNames
    /\ arg.key \in RelativeKeys
    /\ LiteralPath(arg.key) \in arg.fs
    /\ RootPath(arg.key) \in arg.fs
    /\ res.val = arg.key

\* a recognized name wins over a file of that name
C14_WitnessCompound ==
    /\ res.done
    /\ arg.key \in CompoundNames
    /\ LiteralPath(arg.key) \in arg.fs
    /\ res.val = COMPOUND[arg.key]

\* no file under either directory: the identifier itself
C14_WitnessRaw ==
    /\ res.done
    /\ arg.key \notin CompoundNames
    /\ arg.fs = {}
    /\ res.val = arg.key

----------------------------------------------------------------------------
(* post_proc: the order of the stages *)

RdfFilesOf(k) == {RdfTxt(all_atoms[k]), RdfPng(all_atoms[k])}

MsdFilesOf(k) == {MsdNpy(all_atoms[k]), MSD_PNG}

AllRdfFiles == UNION {RdfFilesOf(k) : k \in 1..Len(all_atoms)}

AllMsdFiles == UNION {MsdFilesOf(k) : k \in 1..Len(all_atoms)}

\* C16, as stated: the RDF artifacts of every type are written before the
\* first MSD artifact of any type, and every MSD artifact and msd_slopes
\* before the first diffraction artifact.
C16_StagesSequential ==
    /\ (files \cap AllMsdFiles # {}) => (AllRdfFiles \subseteq files)
    /\ (files \cap DiffractionFiles # {}) =>
          (AllMsdFiles \subseteq files /\ HasKey(doc, "msd_slopes"))

\* C16, amended: RDF and MSD alternate type by type. The RDF artifacts of
\* a type are written before the MSD artifacts of that type, every artifact
\* of a type before the first artifact of the next type, and every RDF and
\* MSD artifact and msd_slopes before the first diffraction artifact.
C16_StagesPerType ==
    /\ \A k \in 1..Len(all_atoms) :
          (MsdNpy(all_atoms[k]) \in files) => (RdfFilesOf(k) \subseteq files)
    /\ (MSD_PNG \in files) => (MsdNpy(all_atoms[1]) \in files)
    /\ \A k \in 2..Len(all_atoms) :
          (files \cap (RdfFilesOf(k) \cup {MsdNpy(all_atoms[k])}) # {}) =>
              (RdfFilesOf(k - 1) \cup MsdFilesOf(k - 1) \subseteq files)
    /\ (files \cap DiffractionFiles # {}) =>
          /\ AllRdfFiles \cup AllMsdFiles \subseteq files
          /\ HasKey(doc, "msd_slopes")

\* the MSD file of the first type is written and no RDF file of the second
C16_Witness ==
    /\ op = "post_proc"
    /\ MsdFilesOf(1) \subseteq files
    /\ files \cap RdfFilesOf(2) = {}

\* the diffraction stage has begun, after every RDF and MSD artifact
C16_WitnessDiffraction ==
    /\ op = "post_proc"
    /\ pc = "p_dp_png"
    /\ DpPng(get_quaternions[1]) \in files
    /\ AllRdfFiles \cup AllMsdFiles \subseteq files

----------------------------------------------------------------------------
(* post_proc: the document field msd_slopes *)

TypeSet == {all_atoms[k] : k \in 1..Len(all_atoms)}

InPostProc == op = "post_proc" /\ pc # "idle"

\* the document differs from the one the run of post_proc started with only
\* by msd_slopes, which has one entry per type, and only once the loop over
\* the types is over
SlopesWrittenWhole ==
    (op = "post_proc" /\ doc # doc0) =>
        /\ ~HasKey(doc0, "msd_slopes")
        /\ doc = Put(doc0, "msd_slopes", slopes)
        /\ DOMAIN doc["msd_slopes"] = TypeSet
        /\ Cardinality(DOMAIN doc["msd_slopes"]) = Len(all_atoms)
        /\ pc \in {"p_mk_dp", "p_dp_png", "p_dp_npy", "idle"}

\* a step of post_proc that changes the document is the first to do so
SlopesWrittenOnce ==
    (InPostProc /\ doc' # doc) => (doc = doc0 /\ pc = "p_doc")

\* C17: a run of post_proc writes msd_slopes at most once, only after every
\* particle type has been processed, with one entry per type; a run that
\* aborts while a type is processed writes no msd_slopes, and the RDF and MSD
\* files of the types before it stay.
C17_SlopesOnceAtEnd ==
    /\ [](SlopesWrittenWhole)
    /\ [][SlopesWrittenOnce]_vars
    /\ [][(InPostProc /\ pc' = "idle" /\ outcome' # "ok")
            => (files' = files /\ doc' = doc)]_vars

\* a run aborted in the second type: no msd_slopes, the files of the first
\* type are in the workspace
C17_Witness ==
    /\ op = "post_proc" /\ pc = "idle" /\ outcome = "aborted"
    /\ DOMAIN slopes = {all_atoms[1]}
    /\ RdfTxt(all_atoms[2]) \in files
    /\ ~HasKey(doc, "msd_slopes")
    /\ RdfFilesOf(1) \cup MsdFilesOf(1) \subseteq files

\* a run that got through every type has written msd_slopes
C17_WitnessWritten ==
    /\ op = "post_proc" /\ pc = "p_mk_dp"
    /\ HasKey(doc, "msd_slopes")
    /\ DOMAIN doc["msd_slopes"] = TypeSet

----------------------------------------------------------------------------
(* sample: the document when post_proc becomes eligible *)

HasSampleDoc == \A k \in 1..Len(SampleDocKeys) : HasKey(doc, SampleDocKeys[k])

\* the last operation the scheduler ran is sample, and its run is over
SampleHasRun == op = "sample" /\ pc = "idle"

\* job.doc.steps is the number of steps of the statepoint
TargetIsStatepoint == HasKey(doc, "steps") /\ doc["steps"] = sp_n_steps

\* C18: whenever post_proc is eligible after sample has been run, the job
\* document has the five fields sample writes unconditionally (stated for
\* the jobs whose doc.steps is the statepoint's n_steps).
C18_EligibleHasDoc ==
    (SampleHasRun /\ TargetIsStatepoint /\ IsEligible("post_proc"))
        => HasSampleDoc

----------------------------------------------------------------------------
(* get_tps_time: the rendered total *)

\* the total get_tps_time sums: the seconds it appended to times
SummedTimes(fs) == SumSeq(ScanFiles(fs, [tps |-> Unbound, times |-> <<>>]).times)

\* str is hh:mm:ss for fields that add up to total, minutes and seconds
\* below 60, the hours not wrapped, each field of at least two digits
IsRendering(total, str) ==
    \E hh \in 0..(total \div 3600), mm \in 0..59, ss \in 0..59 :
        /\ hh * 3600 + mm * 60 + ss = total
        /\ str = Fmt02d(hh) \o ":" \o Fmt02d(mm) \o ":" \o Fmt02d(ss)

\* C19: for every total T >= 0 that get_tps_time sums, the string it
\* renders is hh:mm:ss with hh*3600 + mm*60 + ss = T, 0 <= mm < 60,
\* 0 <= ss < 60 and zero-padded fields (stated for the lists with a
\* throughput line, on which the return statement gets to the rendering).
C19_Rendered ==
    (ret # NotCalled /\ \E k \in 1..Len(outfiles) : HasTps(outfiles[k]))
        => (ret.status = "ok" /\ IsRendering(SummedTimes(outfiles), ret.time))

\* what holds of the code: a rendered string has the fields of the total
RenderedIfReturned ==
    (ret.status = "ok") => IsRendering(SummedTimes(outfiles), ret.time)

----------------------------------------------------------------------------
(* msd_from_gsd: the frames of trajectory[start:stop] *)

\* slice.indices(n) for one index of a slice with step 1
SliceIndex(n, k) ==
    IF k < 0 THEN Max2(n + k, 0) ELSE (IF k < n THEN k ELSE n)

\* the frame numbers of trajectory[start:stop] for a trajectory of n frames
Slice(n, start, stop) ==
    {f \in 0..(n - 1) : SliceIndex(n, start) <= f /\ f < SliceIndex(n, stop)}

\* msd_from_gsd(gsdfile, start=-30, stop=-1, ...): the full curve
MsdFrames(n) == Slice(n, -30, -1)

\* msd_from_gsd(gsdfile, start=-25, stop=-9, ...): the slope estimation
SlopeFrames(n) == Slice(n, -25, -9)

InitSlices ==
    /\ InitJob
    /\ sp_n_steps = 1
    /\ doc = NoDoc
    /\ outfiles = <<>>
    /\ ret = NotCalled
    /\ arg \in [done : {TRUE}, frames : 1..MaxFrames]
    /\ res = Pending
    /\ InitProc

CallMsdFromGsd ==
    /\ res = Pending
    /\ res' = [done |-> TRUE,
               full |-> MsdFrames(arg.frames),
               slope |-> SlopeFrames(arg.frames)]
    /\ UNCHANGED <<jobvars, outfiles, ret, arg, procvars>>

NextSlices == CallMsdFromGsd

SpecSlices == InitSlices /\ [][NextSlices]_vars

\* C20: for every trajectory of N >= 1 frames the frames of the slope
\* estimation are among the frames of the full curve, neither range has the
\* final frame, and the slope estimation has at least two frames.
C20_SlopeWindow ==
    res.done =>
        /\ res.slope \subseteq res.full
        /\ (arg.frames - 1) \notin res.full \cup res.slope
        /\ Cardinality(res.slope) >= 2

\* what holds of the code: inclusion and the final frame for every N, two
\* frames or more only from 11 frames on
SlopeWindowFrom11 ==
    res.done =>
        /\ res.slope \subseteq res.full
        /\ (arg.frames - 1) \notin res.full \cup res.slope
        /\ (Cardinality(res.slope) >= 2) <=> (arg.frames >= 11)
        /\ (arg.frames >= 25) => (Cardinality(res.slope) = 16)
        /\ (arg.frames >= 30) => (Cardinality(res.full) = 29)

----------------------------------------------------------------------------
(* Several jobs.  The scheduler runs one operation at a time; the variables *)
(* of the job hold the state of job cur, parked the state of the others.    *)
(* Operations the scheduler runs in its own process (post_proc, whose       *)
(* executable directive is the interpreter itself) share that process's     *)
(* pyplot figures; a later invocation of the scheduler is a new process.    *)

Jobs == 1..NumJobs

\* the document, the workspace and the run state of the job in the variables
JobRec ==
    [sp_n_steps |-> sp_n_steps, doc |-> doc, files |-> files, dirs |-> dirs,
     traj_step |-> traj_step, pc |-> pc, op |-> op, outcome |-> outcome,
     i |-> i, slopes |-> slopes, q_list |-> q_list, restart |-> restart,
     files0 |-> files0, doc0 |-> doc0, dirs0 |-> dirs0, blocked |-> blocked,
     msd_png |-> msd_png]

\* a job as created, with doc.steps the n_steps of its statepoint
NewJobRec ==
    [sp_n_steps |-> 1, doc |-> Put(NoDoc, "steps", 1), files |-> {},
     dirs |-> {}, traj_step |-> 0, pc |-> "idle", op |-> "none",
     outcome |-> "none", i |-> 0, slopes |-> NoDoc, q_list |-> <<>>,
     restart |-> FALSE, files0 |-> {}, doc0 |-> Put(NoDoc, "steps", 1),
     dirs0 |-> {}, blocked |-> FALSE, msd_png |-> {}]

InitJobs ==
    /\ InitJob
    /\ sp_n_steps = 1
    /\ doc = Put(NoDoc, "steps", 1)
    /\ outfiles = <<>>
    /\ ret = NotCalled
    /\ arg = Pending
    /\ res = Pending
    /\ cur = 1
    /\ parked = [j \in Jobs \ {1} |-> NewJobRec]
    /\ fig2 = {}
    /\ msd_png = {}

\* between two operations the scheduler turns to another job
Switch(j) ==
    /\ pc = "idle"
    /\ j \in DOMAIN parked
    /\ cur' = j
    /\ parked' = [k \in (DOMAIN parked \ {j}) \cup {cur} |->
                     IF k = cur THEN JobRec ELSE parked[k]]
    /\ sp_n_steps' = parked[j].sp_n_steps
    /\ doc' = parked[j].doc
    /\ files' = parked[j].files
    /\ dirs' = parked[j].dirs
    /\ traj_step' = parked[j].traj_step
    /\ pc' = parked[j].pc
    /\ op' = parked[j].op
    /\ outcome' = parked[j].outcome
    /\ i' = parked[j].i
    /\ slopes' = parked[j].slopes
    /\ q_list' = parked[j].q_list
    /\ restart' = parked[j].restart
    /\ files0' = parked[j].files0
    /\ doc0' = parked[j].doc0
    /\ dirs0' = parked[j].dirs0
    /\ blocked' = parked[j].blocked
    /\ msd_png' = parked[j].msd_png
    /\ UNCHANGED <<arg, res, fig2, outfiles, ret>>

SwitchJob == \E j \in Jobs : Switch(j)

\* the scheduler's process ends; the next operation runs in a new one
NewProcess ==
    /\ pc = "idle"
    /\ fig2 # {}
    /\ fig2' = {}
    /\ UNCHANGED <<jobvars, outfiles, ret, arg, res, cur, parked, msd_png>>

NextJobs ==
    \/ SwitchJob
    \/ NewProcess
    \/ StartSample
    \/ StartPostProc
    \/ SamplePack
    \/ SampleInit
    \/ SimFrame
    \/ SimDone
    \/ SampleWriteDoc
    \/ SampleGlob
    \/ SampleWriteTps
    \/ SampleWriteTime
    \/ PostOpen
    \/ MakeRdfTxtDir
    \/ MakeRdfPngDir
    \/ MakeMsdDir
    \/ WriteRdfTxt
    \/ WriteRdfPng
    \/ WriteMsdNpy
    \/ WriteMsdPng
    \/ FitSlope
    \/ WriteSlopes
    \/ MakeDiffractionDir
    \/ WriteDiffractionPng
    \/ WriteDpNpy

SpecJobs == InitJobs /\ [][NextJobs]_vars

\* the curves of job j alone
OwnCurves(j) == {Curve(j, all_atoms[k]) : k \in 1..Len(all_atoms)}

\* C15: operations on different jobs do not interact: whatever operations
\* ran on other jobs, and in whatever order, the artifacts of a job are the
\* ones its own operations give when run alone; here, its msd/msd.png shows
\* the curves of its own particle types and no others.
C15_JobsIndependent ==
    /\ msd_png \subseteq OwnCurves(cur)
    /\ \A j \in DOMAIN parked : parked[j].msd_png \subseteq OwnCurves(j)

\* what holds of the code: a step of an operation changes no other job's
\* document, workspace or run state
OtherJobsUntouched ==
    [][(cur' = cur) => (parked' = parked)]_vars

\* what holds of the code: operations run in separate processes leave
\* msd/msd.png with the job's own curves
OwnCurvesInOwnProcess ==
    [][(pc = "p_msd_png" /\ fig2 \subseteq OwnCurves(cur))
          => (msd_png' \subseteq OwnCurves(cur))]_vars

====
